---- MODULE Spec2Model ----
(***************************************************************************)
(* Room admission and session lifecycle of the AI-Proctoring-System.      *)
(*                                                                         *)
(* The store holds one room document /rooms/r1 (room identifiers are       *)
(* uuidv4 values, so rooms never interfere; one room is followed).  Every  *)
(* participant runs the lobby page (create / join flow) and the call page  *)
(* (room subscription, hang-up, end write) of the React client.  A request *)
(* that writes the room is two steps, the client issuing it and the store  *)
(* applying it, so the check of validateRoom and the writes of joinRoom    *)
(* and endRoom of different participants interleave at the store.  What a  *)
(* client does after a write is acknowledged reads nothing of the store    *)
(* and is part of the step that applies the write.                         *)
(*                                                                         *)
(* SpecSignal follows the WebRTC negotiation of one active room: the       *)
(* signal document /rooms/r1/signal/data with its two candidate            *)
(* collections, the WebRTCService of the caller and of the callee, one     *)
(* step per await of createOffer / createAnswer and per listener callback, *)
(* and the useWebRTC hook that starts, closes and hangs up the call.  The  *)
(* store applies the writes of one client in the order they were issued    *)
(* and delivers the snapshots of different listeners independently.  An    *)
(* operation of a closed RTCPeerConnection never settles.                  *)
(*                                                                         *)
(* SpecCall follows the call pages of the two participants of a room that  *)
(* was created: entering and joining, getUserMedia, the start-call effect, *)
(* the room-ended guard, handleEndCall and the exchange of offer and       *)
(* answer that the pages start.                                            *)
(***************************************************************************)
EXTENDS Integers, Sequences, FiniteSets, TLC

\* ---------------------------------------------------------------- bounds
MaxSessions == 2         \* uuidv4() values handed out to joinRoom

\* The instants (seconds of the store's clock) at which a clock is read.
ClockTicks == {1, 5}

Users == {"u1", "u2", "u3"}

\* The participants who press "create room"; the others receive its id.
Creators == {"u1"}

\* Offsets (ms) of a participant's Date.now() from the store's clock.
ClockSkews == {-1500, 0}

\* URLs the recording upload can return.
RecordingUrls == {"rec"}

\* ------------------------------------------------------- nullable values
\* A nullable field is a sequence of length 0 (null) or 1 (the value).
Null == <<>>
Some(x) == <<x>>
Get(o) == o[1]

\* JavaScript truthiness of a nullable number / of a nullable string.
TruthyNumber(o) == o # Null /\ Get(o) # 0
TruthyString(o) == o # Null /\ Get(o) # ""

\* ------------------------------------------------------------ timestamps
\* Firestore Timestamp of the server clock, which advances by whole seconds.
serverTimestamp(tick) == [seconds |-> tick, nanoseconds |-> 0]

\* Timestamp.toMillis()
toMillis(ts) == ts.seconds * 1000 + (ts.nanoseconds \div 1000000)

\* ------------------------------------------------------- room.service.ts
ErrNotFound == "Room not found. Check the room ID and try again."
ErrEnded == "This call has already ended."
ErrFull == "This room already has two participants."
ErrSelfJoin == "You cannot join your own room as a second participant."
Ok == "ok"

\* toRoom: document snapshot -> Room | null
toRoom(snap) ==
    IF snap = Null THEN Null
    ELSE LET data == Get(snap) IN
         Some([roomId |-> "r1",
               createdBy |-> data.createdBy,
               joinedBy |-> data.joinedBy,
               sessionId |-> data.sessionId,
               startedAt |-> IF data.startedAt = Null THEN Null
                             ELSE Some(toMillis(Get(data.startedAt))),
               endedAt |-> IF data.endedAt = Null THEN Null
                           ELSE Some(toMillis(Get(data.endedAt))),
               duration |-> data.duration,
               status |-> data.status,
               recordingUrl |-> data.recordingUrl])

\* createRoom that stores the new room as already active
createRoomData_Active(createdBy) ==
    [createdBy |-> createdBy,
     joinedBy |-> Null,
     sessionId |-> Null,
     startedAt |-> Null,
     endedAt |-> Null,
     duration |-> Null,
     status |-> "active",
     recordingUrl |-> Null]

\* createRoom: the document written by setDoc
createRoomData(createdBy) ==
    [createdBy |-> createdBy,
     joinedBy |-> Null,
     sessionId |-> Null,
     startedAt |-> Null,
     endedAt |-> Null,
     duration |-> Null,
     status |-> "waiting",
     recordingUrl |-> Null]

\* validateRoom without the self-join check
validateRoom_NoSelfJoinCheck(r, joiningUserId) ==
    IF r = Null THEN ErrNotFound
    ELSE IF Get(r).status = "ended" THEN ErrEnded
    ELSE IF TruthyString(Get(r).joinedBy) /\ Get(Get(r).joinedBy) # joiningUserId
         THEN ErrFull
    ELSE Ok

\* validateRoom that turns away the joiner who is already in the room
validateRoom_FullOnRetry(r, joiningUserId) ==
    IF r = Null THEN ErrNotFound
    ELSE IF Get(r).status = "ended" THEN ErrEnded
    ELSE IF TruthyString(Get(r).joinedBy) THEN ErrFull
    ELSE IF Get(r).createdBy = joiningUserId THEN ErrSelfJoin
    ELSE Ok

\* validateRoom: the error thrown, or Ok when the room is returned
validateRoom(r, joiningUserId) ==
    IF r = Null THEN ErrNotFound
    ELSE IF Get(r).status = "ended" THEN ErrEnded
    ELSE IF TruthyString(Get(r).joinedBy) /\ Get(Get(r).joinedBy) # joiningUserId
         THEN ErrFull
    ELSE IF Get(r).createdBy = joiningUserId THEN ErrSelfJoin
    ELSE Ok

\* joinRoom that leaves sessionId out of its update
joinRoomUpdate_NoSessionId(data, joiningUserId, sessionId, tick) ==
    [data EXCEPT !.joinedBy = Some(joiningUserId),
                 !.startedAt = Some(serverTimestamp(tick)),
                 !.status = "active"]

\* joinRoom: the document after updateDoc
joinRoomUpdate(data, joiningUserId, sessionId, tick) ==
    [data EXCEPT !.joinedBy = Some(joiningUserId),
                 !.sessionId = Some(sessionId),
                 !.startedAt = Some(serverTimestamp(tick)),
                 !.status = "active"]

\* endRoom with Math.round in place of Math.floor
endRoomDuration_Round(now, startedAtMs) == (now - startedAtMs + 500) \div 1000

\* endRoom: Math.floor((now - startedAtMs) / 1000)
endRoomDuration(now, startedAtMs) == (now - startedAtMs) \div 1000

\* endRoom: the document after updateDoc
endRoomUpdate(data, duration, recordingUrl, tick) ==
    [data EXCEPT !.status = "ended",
                 !.endedAt = Some(serverTimestamp(tick)),
                 !.duration = Some(duration),
                 !.recordingUrl = IF TruthyString(recordingUrl)
                                  THEN recordingUrl ELSE @]

\* ---------------------------------------------------- webrtc.service.ts
MaxCandidates == 1       \* candidates the ICE agents of the call gather
MaxReloads == 1          \* times a call page is loaded again
MaxRedeliveries == 1     \* snapshots of the signal document delivered again

\* The participants of the call: the creator (caller) and the joiner (callee).
Peers == {"u1", "u2"}

\* Whether a peer-connection operation succeeds or is rejected.
Outcomes == BOOLEAN

\* pc.createOffer() / pc.createAnswer() of the n-th load of the call page
createOfferResult(n) == [type |-> "offer", sdp |-> n]
createAnswerResult(n) == [type |-> "answer", sdp |-> n]

\* { type: d.type, sdp: d.sdp }, the description as it is written
descriptionPayload_SdpFromType(d) == [type |-> d.type, sdp |-> 0]
descriptionPayload(d) == [type |-> d.type, sdp |-> d.sdp]

\* new RTCSessionDescription(init)
RTCSessionDescription(init) == [type |-> init.type, sdp |-> init.sdp]

\* The requests of createOffer, setupAnswer and of the onicecandidate handlers
\* to the store.
offerWrite(offer) ==
    [op |-> "setDoc",
     data |-> [offer |-> Some(descriptionPayload(offer)), answer |-> Null]]
answerWrite(answer) ==
    [op |-> "updateDoc", data |-> [answer |-> Some(descriptionPayload(answer))]]

\* CALLER_CANDIDATES_PATH / CALLEE_CANDIDATES_PATH: the collection that the
\* onicecandidate handler of createOffer / of setupAnswer appends to
CALLER_CANDIDATES_PATH == "caller"
CALLEE_CANDIDATES_PATH == "callee"
ownCandidatesPath_Shared(r) == CALLER_CANDIDATES_PATH
ownCandidatesPath(r) ==
    IF r = "caller" THEN CALLER_CANDIDATES_PATH ELSE CALLEE_CANDIDATES_PATH

\* event.candidate: the n-th candidate of the ICE agent of a participant
RTCIceCandidate(agent, n) == [agent |-> agent, n |-> n]

\* addDoc(path, payload) of an onicecandidate handler
candidateWrite(path, c) ==
    [op |-> "addDoc", path |-> path, data |-> [candidate |-> c]]

\* signalSnap.exists() && signalSnap.data()?.offer, and the same test of the
\* listener that waits for the offer; snap.exists() && data?.answer
offerPresent_Always(snap) == TRUE
offerPresent_Answer(snap) == snap # Null /\ Get(snap).answer # Null
offerPresent(snap) == snap # Null /\ Get(snap).offer # Null
answerPresent(snap) == snap # Null /\ Get(snap).answer # Null

\* data.offer of a snapshot (undefined, here Null, when there is none)
offerOf(snap) == IF snap = Null THEN Null ELSE Get(snap).offer

\* The collection a role appends its candidates to, and the one it listens to.
remoteRole(r) == IF r = "caller" THEN "callee" ELSE "caller"

\* A WebRTCService: this.pc (non-null or null) with its handler, descriptions
\* and setRemoteDescription calls in flight, this.unsubscribers, the two
\* store listeners the service registers, the position of createOffer /
\* createAnswer, and the candidates its listener was handed (seen), the
\* connection took (applied) or rejected (dropped).
NoService ==
    [pos |-> "none", pc |-> FALSE, onicecandidate |-> FALSE,
     desc |-> Null, localDesc |-> Null, remoteDesc |-> Null, srd |-> <<>>,
     snap |-> Null, offerArg |-> Null, wait |-> "no",
     unsubscribers |-> {}, docSub |-> "off", candSub |-> FALSE,
     seen |-> {}, applied |-> {}, dropped |-> {}]

\* new WebRTCService(roomId); createPeerConnection(handleRemoteStream);
\* addTracks(localStream)
newService == [NoService EXCEPT !.pc = TRUE]

\* setLocalDescription() starts the ICE agent: candidates are gathered once
\* the local description is set.
iceGathering_OnHandler(s) == s.onicecandidate
iceGathering(s) == s.localDesc # Null

\* WebRTCService.closeConnection
closeConnection(s) ==
    [s EXCEPT !.docSub = IF "doc" \in s.unsubscribers THEN "off" ELSE @,
              !.candSub = IF "cands" \in s.unsubscribers THEN FALSE ELSE @,
              !.unsubscribers = {},
              !.pc = FALSE,
              !.onicecandidate = FALSE,
              !.desc = Null,
              !.localDesc = Null,
              !.remoteDesc = Null,
              !.srd = <<>>,
              !.applied = {},
              !.dropped = {}]

\* this.pc.onicecandidate = async ({ candidate }) => ..., the first statement
\* of createOffer after its guard and of setupAnswer after its guard
registerCandidateHandler_Skipped(s) == s
registerCandidateHandler(s) == [s EXCEPT !.onicecandidate = TRUE]

\* The useWebRTC state of a call page that has just mounted (callState.status
\* is the variable callStatus): getUserMedia is pending, callStartedRef of
\* the page is false; with it the number of times the participant loaded the
\* page and the number of candidates the participant's ICE agents gathered.
NoPage ==
    [serviceRef |-> FALSE, localStream |-> FALSE, gumPending |-> TRUE,
     callStarted |-> FALSE, remoteStream |-> FALSE, cleanupDue |-> FALSE,
     durationTimerRef |-> FALSE, timers |-> 0,
     isMicEnabled |-> TRUE, isCameraEnabled |-> TRUE,
     audioEnabled |-> FALSE, videoEnabled |-> FALSE,
     mounts |-> 1, gathered |-> 0]

\* getUserMedia({ video: true, audio: true }): the tracks a participant
\* sends, one ontrack event each at the other side
RemoteTracks == 2

\* useWebRTC.startDurationTimer: durationTimerRef.current = setInterval(...);
\* `timers` is the number of intervals of the page that are running (each
\* adds one to durationSeconds per second), durationTimerRef tells whether
\* the ref holds one of them.
startDurationTimer(pg) ==
    [pg EXCEPT !.timers = @ + 1, !.durationTimerRef = TRUE]

\* useWebRTC.stopDurationTimer: clearInterval(durationTimerRef.current) when
\* the ref is set, then the ref is null
stopDurationTimer(pg) ==
    IF pg.durationTimerRef
    THEN [pg EXCEPT !.timers = @ - 1, !.durationTimerRef = FALSE]
    ELSE pg

\* useWebRTC initMedia: getUserMedia has resolved, setLocalStream(stream).
\* (The cleanup that the change of localStream makes due finds
\* serviceRef.current null: it runs before the start-call effect.)
\* audioEnabled / videoEnabled are the enabled flags of the tracks of
\* localStream (false while there is no stream), isMicEnabled /
\* isCameraEnabled the flags of `controls`.
initMedia(pg) ==
    [pg EXCEPT !.localStream = TRUE, !.gumPending = FALSE,
               !.audioEnabled = TRUE, !.videoEnabled = TRUE]

\* useWebRTC.toggleMic / toggleCamera: nothing without a local stream, else
\* track.enabled = !track.enabled and the control flag takes the new value
toggleMic_NoStreamCheck(pg) ==
    [pg EXCEPT !.audioEnabled = ~pg.audioEnabled,
               !.isMicEnabled = ~pg.audioEnabled]
toggleMic(pg) ==
    IF ~pg.localStream THEN pg
    ELSE [pg EXCEPT !.audioEnabled = ~pg.audioEnabled,
                    !.isMicEnabled = ~pg.audioEnabled]
toggleCamera(pg) ==
    IF ~pg.localStream THEN pg
    ELSE [pg EXCEPT !.videoEnabled = ~pg.videoEnabled,
                    !.isCameraEnabled = ~pg.videoEnabled]

\* CallPage callStartedRef.current
callStartedRef_Unset(pg) == FALSE
callStartedRef(pg) == pg.callStarted

\* CallPage start-call effect: localStream && (role === "caller" ||
\* (role === "callee" && room?.status === "active"))
shouldStart_NoStatusCheck(localStream, r, v) == localStream
shouldStart(localStream, r, v) ==
    /\ localStream
    /\ \/ r = "caller"
       \/ r = "callee" /\ v # Null /\ Get(v).status = "active"

\* CallPage room-ended guard: room?.status === "ended" &&
\* callState.status !== "ended"
roomEndedGuard_Never(v, status) == FALSE
roomEndedGuard(v, status) ==
    v # Null /\ Get(v).status = "ended" /\ status # "ended"

\* useWebRTC.hangUp on the state of the hook: the tracks are stopped,
\* setLocalStream(null), setRemoteStream(null), serviceRef.current = null,
\* stopDurationTimer(), setControls({ false, false })
\* (the cleanups that setLocalStream(null) makes due find serviceRef.current
\* null).
hangUp_Nothing(pg) == pg
hangUp(pg) ==
    [stopDurationTimer(pg) EXCEPT !.localStream = FALSE,
                                  !.remoteStream = FALSE,
                                  !.serviceRef = FALSE,
                                  !.cleanupDue = FALSE,
                                  !.audioEnabled = FALSE,
                                  !.videoEnabled = FALSE,
                                  !.isMicEnabled = FALSE,
                                  !.isCameraEnabled = FALSE]

\* useWebRTC.handleRemoteStream: setRemoteStream(stream), startDurationTimer()
\* (callState.status is set by the action); the render that
\* follows re-runs the effect that depends on remoteStream, so the cleanup of
\* its last run is due.
handleRemoteStream(pg) ==
    startDurationTimer(
        [pg EXCEPT !.remoteStream = TRUE,
                   !.cleanupDue = IF pg.remoteStream THEN @ ELSE TRUE])

\* pc.ontrack of createPeerConnection: setRemoteDescription fires one track
\* event per remote track, each calls onRemoteTrack(remoteStream) with the
\* same stream
RECURSIVE ontrackEvents(_, _)
ontrackEvents(pg, n) ==
    IF n = 0 THEN pg ELSE ontrackEvents(handleRemoteStream(pg), n - 1)
ontrack(pg) == ontrackEvents(pg, RemoteTracks)

\* ----------------------------------------------------------------- state
VARIABLES
    room,           \* the document /rooms/r1: Null or Some(data)
    serverTick,     \* the store's clock (seconds) when it was last read
    nextSid,        \* the next fresh uuidv4() of joinRoom
    pc,             \* per participant: page and position in its handler
    role,           \* per participant: ?role= of the call page
    createdRoomId,  \* LobbyPage state: a room was created on this page
    view,           \* useRoom state `room` of the mounted call page
    callStatus,     \* useWebRTC callState.status
    endReq,         \* arguments and duration of the endRoom in flight
    pendingSid,     \* sessionId generated by the joinRoom in flight
    joinResult,     \* the sessionId useRoom.joinRoom returned to the callee
    error           \* useRoom state `error` of the lobby page

VARIABLES
    signal,         \* the document /rooms/r1/signal/data: Null or Some(data)
    candidates,     \* callerCandidates / calleeCandidates of that document
    offersSent,     \* the offers createOffer has handed to setDoc
    outbox,         \* per participant: its writes the store has not applied
    svc,            \* per participant: the WebRTCService of its call page
    page,           \* per participant: useWebRTC state of its call page
    redeliveries    \* snapshots the store has delivered again

roomVars == <<room, serverTick, nextSid, pc, role, createdRoomId, view,
              endReq, pendingSid, joinResult, error>>

sigVars == <<signal, candidates, offersSent, outbox, svc, page, redeliveries>>

vars == <<room, serverTick, nextSid, pc, role, createdRoomId, view,
          callStatus, endReq, pendingSid, joinResult, error,
          signal, candidates, offersSent, outbox, svc, page, redeliveries>>

\* Date.now() of a participant whose clock is off the store's by skew ms
DateNow(tick, skew) == toMillis(serverTimestamp(tick)) + skew

NoReq == [startedAtMs |-> 0, now |-> 0, duration |-> 0, recordingUrl |-> Null]

\* The fields of the Room in useRoom's state that the call page reads
\* (room.roomId, room.startedAt, room.sessionId, room.status).
roomState(r) ==
    IF r = Null THEN Null
    ELSE Some([roomId |-> Get(r).roomId,
               startedAt |-> Get(r).startedAt,
               sessionId |-> Get(r).sessionId,
               status |-> Get(r).status])

\* No call has been started: nothing is stored under the signal document.
SignalIdle ==
    /\ signal = Null
    /\ candidates = [r \in {"caller", "callee"} |-> {}]
    /\ offersSent = {}
    /\ outbox = [u \in Users |-> <<>>]
    /\ svc = [u \in Users |-> NoService]
    /\ page = [u \in Users |-> NoPage]
    /\ redeliveries = 0

Init ==
    /\ room = Null
    /\ serverTick = 1
    /\ nextSid = 1
    /\ pc = [u \in Users |-> "lobby"]
    /\ role = [u \in Users |-> "none"]
    /\ createdRoomId = [u \in Users |-> FALSE]
    /\ view = [u \in Users |-> Null]
    /\ callStatus = [u \in Users |-> "idle"]
    /\ endReq = [u \in Users |-> NoReq]
    /\ pendingSid = [u \in Users |-> Null]
    /\ joinResult = [u \in Users |-> Null]
    /\ error = [u \in Users |-> Null]
    /\ SignalIdle

\* A clock is read: it has not gone back since it was last read.
ClockRead(tick) == tick >= serverTick /\ serverTick' = tick

\* navigate("/lobby"): the call page and its hooks are unmounted, the cleanup
\* of useWebRTC stops the tracks and closes the connection of the service
\* that serviceRef holds.
NavigateToLobby(u) ==
    /\ pc' = [pc EXCEPT ![u] = "lobby"]
    /\ role' = [role EXCEPT ![u] = "none"]
    /\ view' = [view EXCEPT ![u] = Null]
    /\ callStatus' = [callStatus EXCEPT ![u] = "idle"]
    /\ joinResult' = [joinResult EXCEPT ![u] = Null]
    /\ svc' = [svc EXCEPT ![u] = IF page[u].serviceRef
                                 THEN closeConnection(@) ELSE @]
    /\ page' = [page EXCEPT ![u] = [NoPage EXCEPT
                                      !.mounts = page[u].mounts,
                                      !.gathered = page[u].gathered]]

\* navigate("/call/r1?role=..."): the lobby page is unmounted, the call page
\* mounts with fresh hooks: no service yet, getUserMedia pending
NavigateToCall(u, asRole) ==
    /\ pc' = [pc EXCEPT ![u] = "call"]
    /\ role' = [role EXCEPT ![u] = asRole]
    /\ view' = [view EXCEPT ![u] = Null]
    /\ callStatus' = [callStatus EXCEPT ![u] = "idle"]
    /\ createdRoomId' = [createdRoomId EXCEPT ![u] = FALSE]
    /\ error' = [error EXCEPT ![u] = Null]
    /\ svc' = [svc EXCEPT ![u] = NoService]
    /\ page' = [page EXCEPT ![u] = [NoPage EXCEPT
                                      !.mounts = page[u].mounts,
                                      !.gathered = page[u].gathered]]

\* ------------------------------------------------------------ lobby page
\* LobbyPage.handleCreate -> useRoom.createRoom -> roomService.createRoom
CreateRoom(u) ==
    /\ u \in Creators
    /\ pc[u] = "lobby"
    /\ room = Null
    /\ room' = Some(createRoomData(u))
    /\ createdRoomId' = [createdRoomId EXCEPT ![u] = TRUE]
    /\ error' = [error EXCEPT ![u] = Null]
    /\ UNCHANGED <<serverTick, nextSid, pc, role, view, callStatus, endReq,
                   pendingSid, joinResult>>
    /\ UNCHANGED sigVars

\* LobbyPage.handleEnterCreatedRoom
EnterCreatedRoom(u) ==
    /\ pc[u] = "lobby"
    /\ createdRoomId[u]
    /\ NavigateToCall(u, "caller")
    /\ UNCHANGED <<room, serverTick, nextSid, endReq, pendingSid, joinResult>>
    /\ UNCHANGED <<signal, candidates, offersSent, outbox, redeliveries>>

\* useRoom.joinRoom that goes on to roomService.joinRoom when validateRoom
\* has thrown
HandleJoin_JoinOnError(u) ==
    /\ pc[u] = "lobby"
    /\ nextSid <= MaxSessions
    /\ pc' = [pc EXCEPT ![u] = "joining"]
    /\ pendingSid' = [pendingSid EXCEPT ![u] = Some(nextSid)]
    /\ nextSid' = nextSid + 1
    /\ error' = [error EXCEPT ![u] = Null]
    /\ UNCHANGED <<room, serverTick, role, createdRoomId, view, callStatus,
                   endReq, joinResult>>
    /\ UNCHANGED sigVars

\* LobbyPage.handleJoin -> useRoom.joinRoom: roomService.validateRoom reads
\* the room; on Ok roomService.joinRoom draws its uuid and issues the
\* updateDoc, on an error useRoom sets `error` and the lobby page stays.
HandleJoin(u) ==
    /\ pc[u] = "lobby"
    /\ LET res == validateRoom(toRoom(room), u) IN
       IF res = Ok
       THEN /\ nextSid <= MaxSessions
            /\ pc' = [pc EXCEPT ![u] = "joining"]
            /\ pendingSid' = [pendingSid EXCEPT ![u] = Some(nextSid)]
            /\ nextSid' = nextSid + 1
            /\ error' = [error EXCEPT ![u] = Null]
       ELSE /\ error' = [error EXCEPT ![u] = Some(res)]
            /\ UNCHANGED <<pc, pendingSid, nextSid>>
    /\ UNCHANGED <<room, serverTick, role, createdRoomId, view, callStatus,
                   endReq, joinResult>>
    /\ UNCHANGED sigVars

\* roomService.joinRoom: the updateDoc is applied by the store (startedAt is
\* the store's clock), the session start is logged, the sessionId is returned
\* and LobbyPage.handleJoin navigates to the call page as callee.
JoinRoom(u) ==
    /\ pc[u] = "joining"
    /\ room # Null
    /\ \E tick \in ClockTicks :
          /\ ClockRead(tick)
          /\ room' = Some(joinRoomUpdate(Get(room), u, Get(pendingSid[u]), tick))
    /\ NavigateToCall(u, "callee")
    /\ joinResult' = [joinResult EXCEPT ![u] = pendingSid[u]]
    /\ pendingSid' = [pendingSid EXCEPT ![u] = Null]
    /\ UNCHANGED <<nextSid, endReq>>
    /\ UNCHANGED <<signal, candidates, offersSent, outbox, redeliveries>>

\* ------------------------------------------------------------- call page
\* roomService.subscribeToRoom -> onSnapshot -> setRoom(toRoom(snap)), and the
\* effects of the render it causes: the room-ended guard of CallPage calls
\* hangUp() and navigates to the lobby.  Snapshots that arrive once
\* handleEndCall is running are not followed: the handler works on the `room`
\* of the render that built it, and the guard needs callState.status # ended.
RoomSnapshot(u) ==
    /\ pc[u] = "call"
    /\ view[u] # roomState(toRoom(room))
    /\ LET r == roomState(toRoom(room)) IN
       IF roomEndedGuard(r, callStatus[u])
       THEN NavigateToLobby(u)
       ELSE /\ view' = [view EXCEPT ![u] = r]
            /\ UNCHANGED <<callStatus, pc, role, joinResult, svc, page>>
    /\ UNCHANGED <<room, serverTick, nextSid, createdRoomId, endReq,
                   pendingSid, error>>
    /\ UNCHANGED <<signal, candidates, offersSent, outbox, redeliveries>>

\* CallPage.handleEndCall: hangUp(), recording.stopAndUpload when a recording
\* is running and the room has a sessionId (it resolves with the URL, or with
\* null when the upload failed), then useRoom.endRoom(recordingUrl) with the
\* `room` of the render that built the handler: either its guard returns
\* without a write and handleEndCall goes on to navigate, or
\* roomService.endRoom reads Date.now(), computes the duration and issues the
\* updateDoc.
HandleEndCall(u) ==
    /\ pc[u] = "call"
    /\ svc' = [svc EXCEPT ![u] = IF page[u].serviceRef
                                 THEN closeConnection(@) ELSE @]
    /\ page' = [page EXCEPT ![u] = hangUp(@)]
    /\ callStatus' = [callStatus EXCEPT ![u] = "ended"]
    /\ LET r == view[u] IN
       IF r = Null \/ ~TruthyString(Some(Get(r).roomId)) \/ ~TruthyNumber(Get(r).startedAt)
       THEN /\ pc' = [pc EXCEPT ![u] = "leaving"]
            /\ UNCHANGED <<endReq, serverTick>>
       ELSE /\ \E tick \in ClockTicks, skew \in ClockSkews,
                  recordingUrl \in {Null} \cup
                     {Some(x) : x \in IF TruthyNumber(Get(r).sessionId)
                                      THEN RecordingUrls ELSE {}} :
                  LET now == DateNow(tick, skew)
                      startedAtMs == Get(Get(r).startedAt) IN
                  /\ ClockRead(tick)
                  /\ endReq' = [endReq EXCEPT ![u] =
                                  [startedAtMs |-> startedAtMs,
                                   now |-> now,
                                   duration |-> endRoomDuration(now, startedAtMs),
                                   recordingUrl |-> recordingUrl]]
            /\ pc' = [pc EXCEPT ![u] = "ending"]
    /\ UNCHANGED <<role, view, joinResult>>
    /\ UNCHANGED <<room, nextSid, createdRoomId, pendingSid, error>>
    /\ UNCHANGED <<signal, candidates, offersSent, outbox, redeliveries>>

\* CallPage.handleEndCall after an endRoom that returned without a write:
\* navigate("/lobby")
LeaveAfterHangUp(u) ==
    /\ pc[u] = "leaving"
    /\ NavigateToLobby(u)
    /\ UNCHANGED <<room, serverTick, nextSid, createdRoomId, endReq,
                   pendingSid, error>>
    /\ UNCHANGED <<signal, candidates, offersSent, outbox, redeliveries>>

\* roomService.endRoom: the updateDoc is applied by the store (endedAt is the
\* store's clock), the session end is logged and handleEndCall navigates to
\* the lobby.  (The log goes to /rooms/r1/monitoring/stats, a document no
\* room operation reads.)
EndRoom(u) ==
    /\ pc[u] = "ending"
    /\ room # Null
    /\ \E tick \in ClockTicks :
          /\ ClockRead(tick)
          /\ room' = Some(endRoomUpdate(Get(room), endReq[u].duration,
                                        endReq[u].recordingUrl, tick))
    /\ NavigateToLobby(u)
    /\ endReq' = [endReq EXCEPT ![u] = NoReq]
    /\ UNCHANGED <<nextSid, createdRoomId, pendingSid, error>>
    /\ UNCHANGED <<signal, candidates, offersSent, outbox, redeliveries>>

\* The call page is left without hanging up (browser back, reload): the
\* cleanup of useRoom unsubscribes, the room document is not touched.
LeavePage(u) ==
    /\ pc[u] = "call"
    /\ NavigateToLobby(u)
    /\ UNCHANGED <<room, serverTick, nextSid, createdRoomId, endReq,
                   pendingSid, error>>
    /\ UNCHANGED <<signal, candidates, offersSent, outbox, redeliveries>>

Next ==
    \/ \E u \in Users : CreateRoom(u)
    \/ \E u \in Users : EnterCreatedRoom(u)
    \/ \E u \in Users : HandleJoin(u)
    \/ \E u \in Users : JoinRoom(u)
    \/ \E u \in Users : RoomSnapshot(u)
    \/ \E u \in Users : HandleEndCall(u)
    \/ \E u \in Users : EndRoom(u)
    \/ \E u \in Users : LeaveAfterHangUp(u)
    \/ \E u \in Users : LeavePage(u)

Spec == Init /\ [][Next]_vars

\* ------------------------------------------------------------ properties
\* The steps that apply a write of roomService.joinRoom / endRoom to the store,
\* and the steps in which roomService.validateRoom answers.
JoinWrite(u) == pc[u] = "joining" /\ pc'[u] = "call"
EndWrite(u) == pc[u] = "ending" /\ pc'[u] = "lobby"
ValidateAnswer(u) ==
    /\ pc[u] = "lobby"
    /\ \/ pc'[u] = "joining"
       \/ error'[u] # Null /\ error'[u] # error[u]
ValidateOutcome(u) == IF pc'[u] = "joining" THEN Ok ELSE Get(error'[u])

StatusRank(status) ==
    CASE status = "waiting" -> 0 [] status = "active" -> 1 [] status = "ended" -> 2

\* C1: no step moves the status of a room backwards along
\* waiting -> active -> ended; in particular an ended room stays ended.
C1_StatusNeverMovesBack ==
    [][room # Null =>
         /\ room' # Null
         /\ StatusRank(Get(room').status) >= StatusRank(Get(room).status)]_vars

\* C2: of the participants who run the join flow on a room, at most one is
\* handed a session identifier (the other is turned away with a conflict).
C2_OnlyOneJoinerSucceeds ==
    \A a, b \in Users :
        a # b => ~(joinResult[a] # Null /\ joinResult[b] # Null)

\* C3: once joinedBy is set, no step changes it.
C3_JoinerImmutable ==
    [][room # Null /\ Get(room).joinedBy # Null =>
         room' # Null /\ Get(room').joinedBy = Get(room).joinedBy]_vars

\* C4: the joiner of a room is never its creator.
C4_JoinerIsNotCreator ==
    room # Null /\ Get(room).joinedBy # Null =>
        Get(Get(room).joinedBy) # Get(room).createdBy

\* C4 witness: the creator tried to join its own room and was turned away, and
\* the room has a joiner.
C4_Witness ==
    /\ room # Null
    /\ Get(room).joinedBy # Null
    /\ error[Get(room).createdBy] = Some(ErrSelfJoin)

\* C5: a joinRoom by the participant who already is the room's joiner returns
\* the session identifier the room holds and leaves it unchanged.
C5_JoinRetryKeepsSession ==
    [][\A u \in Users :
         JoinWrite(u) /\ room # Null /\ Get(room).joinedBy = Some(u) =>
            /\ Get(room').sessionId = Get(room).sessionId
            /\ joinResult'[u] = Get(room).sessionId]_vars

\* C6: an endRoom applied to a room that is already ended leaves the stored
\* duration as the first endRoom stored it.
C6_EndRoomIdempotent ==
    [][(\E u \in Users : EndWrite(u)) /\ room # Null /\ Get(room).status = "ended" =>
         Get(room').duration = Get(room).duration]_vars

\* C7: the room is written to ended exactly once: an end write never arrives
\* at a room that is already ended and changes its endedAt or duration.
C7_EndedWrittenOnce ==
    [][\A u \in Users :
         EndWrite(u) /\ room # Null /\ Get(room).status = "ended" =>
            /\ Get(room').endedAt = Get(room).endedAt
            /\ Get(room').duration = Get(room).duration]_vars

\* The outcome C8 names for validateRoom(roomId, joiningId) on the room r as
\* read: the first of its four failure conditions that applies.
C8_Named(r, joiningId) ==
    CASE r = Null -> ErrNotFound
      [] r # Null /\ Get(r).status = "ended" -> ErrEnded
      [] r # Null /\ Get(r).status # "ended" /\ Get(r).joinedBy # Null
           /\ Get(r).joinedBy # Some(joiningId) -> ErrFull
      [] r # Null /\ Get(r).status # "ended"
           /\ Get(r).joinedBy \in {Null, Some(joiningId)}
           /\ Get(r).createdBy = joiningId -> ErrSelfJoin
      [] OTHER -> Ok

\* C8: validateRoom fails with NotFound on an absent room, AlreadyEnded on an
\* ended one, AlreadyFull when another joiner is set, SelfJoinRejected for the
\* creator, and returns the room otherwise; a fresh room rejects its creator
\* with SelfJoinRejected, a room joined by somebody else rejects a third
\* participant with RoomFull.
C8_ValidateRoomOutcome ==
    [][\A u \in Users :
         ValidateAnswer(u) =>
            /\ ValidateOutcome(u) = C8_Named(room, u)
            /\ (room # Null /\ Get(room).createdBy = u /\ Get(room).status = "waiting"
                  /\ Get(room).joinedBy = Null)
                 => ValidateOutcome(u) = ErrSelfJoin
            /\ (room # Null /\ Get(room).createdBy # u /\ Get(room).status = "active"
                  /\ Get(room).joinedBy # Null /\ Get(room).joinedBy # Some(u))
                 => ValidateOutcome(u) = ErrFull]_vars

\* C8 witness: the room's creator was rejected as a self-join, then the room
\* was joined and a third participant was rejected because it is full.
C8_Witness ==
    /\ room # Null
    /\ Get(room).status = "active"
    /\ error[Get(room).createdBy] = Some(ErrSelfJoin)
    /\ \E u \in Users :
          /\ u # Get(room).createdBy
          /\ Get(room).joinedBy \notin {Null, Some(u)}
          /\ error[u] = Some(ErrFull)

\* C9: the end write sets status ended and stores the whole seconds from
\* startedAtMs to now (4 for 1000 and 5000); with a null recording URL the
\* room's recordingUrl is left as it is.
C9_EndRoomStoresDuration ==
    [][\A u \in Users :
         EndWrite(u) /\ room # Null =>
            LET d == Get(Get(room').duration)
                diff == endReq[u].now - endReq[u].startedAtMs IN
            /\ Get(room').status = "ended"
            /\ d * 1000 <= diff /\ diff < (d + 1) * 1000
            /\ (endReq[u].startedAtMs = 1000 /\ endReq[u].now = 5000) => d = 4
            /\ endReq[u].recordingUrl = Null =>
                  Get(room').recordingUrl = Get(room).recordingUrl]_vars

\* C9 witness: a room started at 1000 ms was ended at 5000 ms without a
\* recording: duration 4, status ended, recordingUrl unset.
C9_Witness ==
    /\ room # Null
    /\ Get(room).status = "ended"
    /\ Get(room).startedAt = Some(serverTimestamp(1))
    /\ Get(room).endedAt = Some(serverTimestamp(5))
    /\ Get(room).duration = Some(4)
    /\ Get(room).recordingUrl = Null

\* C10: the duration stored in a room is never negative.
C10_DurationNeverNegative ==
    room # Null /\ Get(room).duration # Null => Get(Get(room).duration) >= 0

\* C26: when validateRoom fails in the join flow the failure is surfaced
\* (useRoom's error is the message thrown), no joinRoom write is issued, the
\* room document is left as it was and the user does not go on towards the
\* call page as callee.
C26_FailedValidationStopsJoin ==
    [][\A u \in Users :
          LET res == validateRoom(toRoom(room), u) IN
          (pc[u] = "lobby" /\ res # Ok) =>
             /\ pc'[u] # "joining"
             /\ role'[u] # "callee"
             /\ pendingSid'[u] = Null
             /\ (error'[u] # Null /\ error'[u] # error[u]) =>
                   /\ error'[u] = Some(res)
                   /\ room' = room
                   /\ pc'[u] = "lobby"]_vars

\* a join was turned away while the room exists: the lobby shows the message
C26_Witness ==
    \E u \in Users :
       /\ pc[u] = "lobby"
       /\ room # Null
       /\ error[u] # Null
       /\ error[u] = Some(validateRoom(toRoom(room), u))
       /\ role[u] = "none"

\* C28: createRoom(creatorId) persists a new room whose status is waiting,
\* whose creator is the given user and whose joinedBy, sessionId, startedAt,
\* endedAt, duration and recordingUrl are all null, and returns its
\* identifier (the lobby holds it as createdRoomId).
C28_CreateRoomPersistsWaiting ==
    [][(room = Null /\ room' # Null) =>
          \E u \in Users :
             /\ pc[u] = "lobby"
             /\ createdRoomId'[u]
             /\ Get(room').createdBy = u
             /\ Get(room').status = "waiting"
             /\ Get(room').joinedBy = Null
             /\ Get(room').sessionId = Null
             /\ Get(room').startedAt = Null
             /\ Get(room').endedAt = Null
             /\ Get(room').duration = Null
             /\ Get(room').recordingUrl = Null]_vars

\* the room has just been created and nobody has joined it
C28_Witness ==
    \E u \in Users :
       /\ createdRoomId[u]
       /\ room # Null
       /\ Get(room).createdBy = u
       /\ Get(room).status = "waiting"
       /\ pc[u] = "lobby"

\* C37: in every reachable state of the room document, status waiting
\* implies that joinedBy, sessionId and startedAt are all null, and status
\* active or ended implies that they are all non-null.
C37_StatusMatchesJoinFields ==
    room # Null =>
       LET d == Get(room) IN
       /\ d.status \in {"waiting", "active", "ended"}
       /\ d.status = "waiting" =>
             (d.joinedBy = Null /\ d.sessionId = Null /\ d.startedAt = Null)
       /\ d.status \in {"active", "ended"} =>
             (d.joinedBy # Null /\ d.sessionId # Null /\ d.startedAt # Null)

\* the room was joined and then ended by a participant's end write
C37_Witness ==
    /\ room # Null
    /\ Get(room).status = "ended"
    /\ Get(room).joinedBy # Null
    /\ Get(room).sessionId # Null
    /\ Get(room).startedAt # Null
    /\ Get(room).endedAt # Null

\* ------------------------------------------------------------ signaling
\* The call page of the creator (?role=caller) and of the joiner
\* (?role=callee) of an active room, local media ready, no call started.
SigInit ==
    /\ room = Some(joinRoomUpdate(createRoomData("u1"), "u2", 1, 1))
    /\ serverTick = 1
    /\ nextSid = 2
    /\ pc = [u \in Users |-> IF u \in Peers THEN "call" ELSE "lobby"]
    /\ role = [u \in Users |-> IF u = "u1" THEN "caller"
                               ELSE IF u = "u2" THEN "callee" ELSE "none"]
    /\ createdRoomId = [u \in Users |-> FALSE]
    /\ view = [u \in Users |-> IF u \in Peers THEN roomState(toRoom(room))
                               ELSE Null]
    /\ callStatus = [u \in Users |-> "idle"]
    /\ endReq = [u \in Users |-> NoReq]
    /\ pendingSid = [u \in Users |-> Null]
    /\ joinResult = [u \in Users |-> IF u = "u2" THEN Some(1) ELSE Null]
    /\ error = [u \in Users |-> Null]
    /\ signal = Null
    /\ candidates = [r \in {"caller", "callee"} |-> {}]
    /\ offersSent = {}
    /\ outbox = [u \in Users |-> <<>>]
    /\ svc = [u \in Users |-> NoService]
    /\ page = [u \in Users |-> IF u \in Peers THEN initMedia(NoPage)
                               ELSE NoPage]
    /\ redeliveries = 0

\* A change of the signal document reaches every listener of the document.
Notify(f) ==
    [q \in Users |-> IF f[q].docSub = "idle"
                     THEN [f[q] EXCEPT !.docSub = "pending"] ELSE f[q]]

\* CallPage start-call effect -> useWebRTC.startCall, up to the first await
\* of createOffer (pc.createOffer()) or of createAnswer (getDoc).
StartCall(p) ==
    /\ pc[p] \in {"call", "ending"}
    /\ ~callStartedRef(page[p])
    /\ shouldStart(page[p].localStream, role[p], view[p])
    /\ callStatus' = [callStatus EXCEPT ![p] = "connecting"]
    /\ page' = [page EXCEPT ![p].callStarted = TRUE,
                            ![p].serviceRef = TRUE]
    /\ svc' = [svc EXCEPT ![p] =
                 IF role[p] = "caller"
                 THEN [registerCandidateHandler(newService) EXCEPT
                         !.pos = "createOffer"]
                 ELSE [newService EXCEPT !.pos = "getDoc"]]
    /\ UNCHANGED <<signal, candidates, offersSent, outbox, redeliveries>>
    /\ UNCHANGED roomVars

\* createOffer: pc.createOffer() resolves (on a closed connection it never
\* does), setLocalDescription(offer) is called.
CreateOfferResolved(p) ==
    /\ svc[p].pos = "createOffer"
    /\ svc[p].pc
    /\ svc' = [svc EXCEPT ![p].desc = Some(createOfferResult(page[p].mounts)),
                          ![p].pos = "setLocal"]
    /\ UNCHANGED <<signal, candidates, offersSent, outbox, page, redeliveries,
                   callStatus>>
    /\ UNCHANGED roomVars

\* setupAnswer: pc.createAnswer() resolves, setLocalDescription(answer) is
\* called.
CreateAnswerResolved(p) ==
    /\ svc[p].pos = "createAnswer"
    /\ svc[p].pc
    /\ svc' = [svc EXCEPT ![p].desc = Some(createAnswerResult(page[p].mounts)),
                          ![p].pos = "setLocal"]
    /\ UNCHANGED <<signal, candidates, offersSent, outbox, page, redeliveries,
                   callStatus>>
    /\ UNCHANGED roomVars

\* setLocalDescription that resolves on a closed connection as well, the
\* function going on to its write
SetLocalResolved_AfterClose(p) ==
    /\ svc[p].pos = "setLocal"
    /\ LET d == IF svc[p].desc # Null THEN Get(svc[p].desc)
                ELSE IF role[p] = "caller"
                     THEN createOfferResult(page[p].mounts)
                     ELSE createAnswerResult(page[p].mounts) IN
       /\ svc' = [svc EXCEPT ![p].localDesc = IF svc[p].pc THEN Some(d) ELSE @,
                             ![p].desc = Null,
                             ![p].pos = IF role[p] = "caller"
                                        THEN "setDoc" ELSE "updateDoc"]
       /\ outbox' = [outbox EXCEPT ![p] =
                       Append(@, IF role[p] = "caller"
                                 THEN offerWrite(d) ELSE answerWrite(d))]
       /\ offersSent' = IF role[p] = "caller"
                        THEN offersSent \cup {d} ELSE offersSent
    /\ UNCHANGED <<signal, candidates, page, redeliveries, callStatus>>
    /\ UNCHANGED roomVars

\* setLocalDescription resolves and the function goes on to its write:
\* setDoc of the offer (createOffer) or updateDoc of the answer (setupAnswer).
SetLocalResolved(p) ==
    /\ svc[p].pos = "setLocal"
    /\ svc[p].pc
    /\ LET d == Get(svc[p].desc) IN
       /\ svc' = [svc EXCEPT ![p].localDesc = Some(d),
                             ![p].desc = Null,
                             ![p].pos = IF role[p] = "caller"
                                        THEN "setDoc" ELSE "updateDoc"]
       /\ outbox' = [outbox EXCEPT ![p] =
                       Append(@, IF role[p] = "caller"
                                 THEN offerWrite(d) ELSE answerWrite(d))]
       /\ offersSent' = IF role[p] = "caller"
                        THEN offersSent \cup {d} ELSE offersSent
    /\ UNCHANGED <<signal, candidates, page, redeliveries, callStatus>>
    /\ UNCHANGED roomVars

\* pc.onicecandidate: the ICE agent has a candidate, the handler appends it
\* to the collection of the participant's role (addDoc).
GatherCandidate(p) ==
    /\ svc[p].pc
    /\ svc[p].onicecandidate
    /\ iceGathering(svc[p])
    /\ page["u1"].gathered + page["u2"].gathered < MaxCandidates
    /\ page' = [page EXCEPT ![p].gathered = @ + 1]
    /\ outbox' = [outbox EXCEPT ![p] =
                    Append(@, candidateWrite(
                                 ownCandidatesPath(role[p]),
                                 RTCIceCandidate(p, page[p].gathered + 1)))]
    /\ UNCHANGED <<signal, candidates, offersSent, svc, redeliveries,
                   callStatus>>
    /\ UNCHANGED roomVars

\* (A write whose service went with an unmounted page is applied, nothing
\* waits for its acknowledgement.)
\* The store applies the oldest write of a participant and acknowledges it;
\* the function that awaits the write goes on: createOffer registers its two
\* listeners and returns, setupAnswer registers its listener and returns.
StoreApply(p) ==
    /\ outbox[p] # <<>>
    /\ outbox' = [outbox EXCEPT ![p] = Tail(@)]
    /\ LET w == Head(outbox[p]) IN
       CASE w.op = "setDoc" ->
              /\ signal' = Some(w.data)
              /\ svc' = IF svc[p].pos = "setDoc"
                        THEN [Notify(svc) EXCEPT
                                ![p].docSub = "pending",
                                ![p].candSub = TRUE,
                                ![p].seen = {},
                                ![p].unsubscribers = @ \cup {"doc", "cands"},
                                ![p].pos = "done"]
                        ELSE Notify(svc)
              /\ UNCHANGED <<candidates, callStatus>>
         [] w.op = "updateDoc" ->
              IF signal = Null
              THEN /\ svc' = IF svc[p].pos = "updateDoc"
                             THEN [svc EXCEPT ![p].pos = "failed"] ELSE svc
                   /\ callStatus' = IF svc[p].pos = "updateDoc"
                                    THEN [callStatus EXCEPT ![p] = "error"]
                                    ELSE callStatus
                   /\ UNCHANGED <<signal, candidates>>
              ELSE /\ signal' = Some([Get(signal) EXCEPT
                                         !.answer = w.data.answer])
                   /\ svc' = IF svc[p].pos = "updateDoc"
                             THEN [Notify(svc) EXCEPT
                                     ![p].candSub = TRUE,
                                     ![p].seen = {},
                                     ![p].unsubscribers = @ \cup {"cands"},
                                     ![p].pos = "done"]
                             ELSE Notify(svc)
                   /\ UNCHANGED <<candidates, callStatus>>
         [] w.op = "addDoc" ->
              /\ candidates' = [candidates EXCEPT ![w.path] =
                                  @ \cup {w.data.candidate}]
              /\ UNCHANGED <<signal, svc, callStatus>>
    /\ UNCHANGED <<offersSent, page, redeliveries>>
    /\ UNCHANGED roomVars

\* createAnswer: the store answers the getDoc of the signal document.
GetDocRead(p) ==
    /\ svc[p].pos = "getDoc"
    /\ svc' = [svc EXCEPT ![p].snap = signal, ![p].pos = "gotDoc"]
    /\ UNCHANGED <<signal, candidates, offersSent, outbox, page, redeliveries,
                   callStatus>>
    /\ UNCHANGED roomVars

\* createAnswer whose setupAnswer opens the listener of the caller's
\* candidates before it applies the offer
GetDocResolved_CandidatesFirst(p) ==
    /\ svc[p].pos = "gotDoc"
    /\ LET s == svc[p] IN
       svc' = [svc EXCEPT ![p] =
          IF offerPresent(s.snap)
          THEN IF s.pc
               THEN [registerCandidateHandler(s) EXCEPT
                              !.candSub = TRUE,
                              !.unsubscribers = @ \cup {"cands"},
                              !.offerArg = offerOf(s.snap),
                              !.snap = Null,
                              !.pos = "setRemote"]
               ELSE [s EXCEPT !.snap = Null, !.pos = "done"]
          ELSE [s EXCEPT !.docSub = "pending",
                         !.unsubscribers = @ \cup {"doc"},
                         !.wait = IF signal # Null THEN "replay" ELSE "notify",
                         !.snap = Null,
                         !.pos = "waitOffer"]]
    /\ UNCHANGED <<signal, candidates, offersSent, outbox, page, redeliveries,
                   callStatus>>
    /\ UNCHANGED roomVars

\* createAnswer after its getDoc: with an offer setupAnswer starts (it
\* returns at once when this.pc is null, else it sets onicecandidate and
\* calls setRemoteDescription), without one the listener that waits for the
\* offer is registered.
GetDocResolved(p) ==
    /\ svc[p].pos = "gotDoc"
    /\ LET s == svc[p] IN
       svc' = [svc EXCEPT ![p] =
          IF offerPresent(s.snap)
          THEN IF s.pc
               THEN [registerCandidateHandler(s) EXCEPT
                              !.offerArg = offerOf(s.snap),
                              !.snap = Null,
                              !.pos = "setRemote"]
               ELSE [s EXCEPT !.snap = Null, !.pos = "done"]
          ELSE [s EXCEPT !.docSub = "pending",
                         !.unsubscribers = @ \cup {"doc"},
                         !.wait = IF signal # Null THEN "replay" ELSE "notify",
                         !.snap = Null,
                         !.pos = "waitOffer"]]
    /\ UNCHANGED <<signal, candidates, offersSent, outbox, page, redeliveries,
                   callStatus>>
    /\ UNCHANGED roomVars

\* A snapshot of the signal document is delivered to the listener of a
\* participant: the caller's applies an answer when currentRemoteDescription
\* is null, the callee's unsubscribes and starts setupAnswer on an offer.
DocSnapshot(p) ==
    /\ svc[p].docSub = "pending"
    /\ LET s == svc[p] IN
       svc' = [svc EXCEPT ![p] =
          IF signal = Null \/ ~s.pc
          THEN [s EXCEPT !.docSub = "idle"]
          ELSE IF role[p] = "caller"
          THEN IF answerPresent(signal) /\ s.remoteDesc = Null
               THEN [s EXCEPT !.docSub = "idle",
                              !.srd = Append(@, RTCSessionDescription(
                                                   Get(Get(signal).answer)))]
               ELSE [s EXCEPT !.docSub = "idle"]
          ELSE IF offerPresent(signal)
               THEN [registerCandidateHandler(s) EXCEPT
                              !.docSub = "off",
                              !.offerArg = offerOf(signal),
                              !.pos = "setRemote"]
               ELSE [s EXCEPT !.docSub = "idle"]]
    /\ UNCHANGED <<signal, candidates, offersSent, outbox, page, redeliveries,
                   callStatus>>
    /\ UNCHANGED roomVars

\* The store delivers the current snapshot of the signal document once more.
Redeliver(p) ==
    /\ svc[p].docSub = "idle"
    /\ redeliveries < MaxRedeliveries
    /\ redeliveries' = redeliveries + 1
    /\ svc' = [svc EXCEPT ![p].docSub = "pending"]
    /\ UNCHANGED <<signal, candidates, offersSent, outbox, page, callStatus>>
    /\ UNCHANGED roomVars

\* The caller's oldest setRemoteDescription(answer) settles: it succeeds
\* (ontrack -> handleRemoteStream) or is rejected; with a remote description
\* already set it is rejected.  Nothing awaits the listener's promise.
AnswerApplied(p) ==
    /\ svc[p].srd # <<>>
    /\ svc[p].pc
    /\ \E ok \in Outcomes :
          IF svc[p].remoteDesc = Null /\ ok
          THEN /\ svc' = [svc EXCEPT ![p].remoteDesc = Some(Head(svc[p].srd)),
                                     ![p].srd = Tail(@)]
               /\ page' = [page EXCEPT ![p] = ontrack(@)]
               /\ callStatus' = [callStatus EXCEPT ![p] = "connected"]
          ELSE /\ svc' = [svc EXCEPT ![p].srd = Tail(@)]
               /\ UNCHANGED <<page, callStatus>>
    /\ UNCHANGED <<signal, candidates, offersSent, outbox, redeliveries>>
    /\ UNCHANGED roomVars

\* setupAnswer: setRemoteDescription(offer) settles: it succeeds (ontrack ->
\* handleRemoteStream) and pc.createAnswer() is called, or it throws, which
\* createAnswer passes on to the catch of startCall.
OfferApplied(p) ==
    /\ svc[p].pos = "setRemote"
    /\ svc[p].pc
    /\ \E ok \in Outcomes :
          IF svc[p].offerArg # Null /\ ok
          THEN /\ svc' = [svc EXCEPT
                            ![p].remoteDesc =
                               Some(RTCSessionDescription(Get(svc[p].offerArg))),
                            ![p].pos = "createAnswer"]
               /\ page' = [page EXCEPT ![p] = ontrack(@)]
               /\ callStatus' = [callStatus EXCEPT ![p] = "connected"]
          ELSE /\ svc' = [svc EXCEPT ![p].pos = "failed"]
               /\ callStatus' = [callStatus EXCEPT ![p] = "error"]
               /\ UNCHANGED page
    /\ UNCHANGED <<signal, candidates, offersSent, outbox, redeliveries>>
    /\ UNCHANGED roomVars

\* A candidate of the other role is delivered to the candidate listener
\* (docChanges "added") and handed to addIceCandidate, which runs after a
\* setRemoteDescription in flight: the caller calls this.pc!.addIceCandidate
\* with nothing around it, a rejection (no remote description) loses the
\* candidate; the callee calls this.pc?.addIceCandidate in a try/catch.
CandidateSnapshot(p) ==
    /\ svc[p].candSub
    /\ svc[p].srd = <<>>
    /\ \E c \in candidates[remoteRole(role[p])] \ svc[p].seen :
          LET s == [svc[p] EXCEPT !.seen = @ \cup {c}] IN
          svc' = [svc EXCEPT ![p] =
             IF ~s.pc THEN s
             ELSE IF s.remoteDesc # Null
             THEN [s EXCEPT !.applied = @ \cup {c}]
             ELSE [s EXCEPT !.dropped = @ \cup {c}]]
    /\ UNCHANGED <<signal, candidates, offersSent, outbox, page, redeliveries,
                   callStatus>>
    /\ UNCHANGED roomVars

\* The cleanup of the effect of useWebRTC that depends on localStream and
\* remoteStream runs when remoteStream has changed: it stops the tracks of
\* the streams of the last render and calls serviceRef.current
\* ?.closeConnection().
EffectCleanup(p) ==
    /\ page[p].cleanupDue
    /\ page' = [page EXCEPT ![p] =
                  [stopDurationTimer(@) EXCEPT !.cleanupDue = FALSE]]
    /\ svc' = [svc EXCEPT ![p] = IF page[p].serviceRef
                                 THEN closeConnection(@) ELSE @]
    /\ UNCHANGED <<signal, candidates, offersSent, outbox, redeliveries,
                   callStatus>>
    /\ UNCHANGED roomVars

\* useWebRTC.hangUp (the cleanups that its setLocalStream(null) makes due
\* find serviceRef.current null)
HangUp(p) ==
    /\ pc[p] = "call"
    /\ callStatus[p] # "ended"
    /\ svc' = [svc EXCEPT ![p] = IF page[p].serviceRef
                                 THEN closeConnection(@) ELSE @]
    /\ page' = [page EXCEPT ![p] = hangUp(@)]
    /\ callStatus' = [callStatus EXCEPT ![p] = "ended"]
    /\ UNCHANGED <<signal, candidates, offersSent, outbox, redeliveries>>
    /\ UNCHANGED roomVars

\* The call page is loaded again (browser reload of /call/r1?role=...): the
\* service, its listeners and its unsent writes go with the old page; the
\* new page has its local media (permission is remembered).
Reload(p) ==
    /\ pc[p] = "call"
    /\ page["u1"].mounts + page["u2"].mounts - 2 < MaxReloads
    /\ svc' = [svc EXCEPT ![p] = NoService]
    /\ page' = [page EXCEPT ![p] =
                  [initMedia(NoPage) EXCEPT !.mounts = page[p].mounts + 1,
                                            !.gathered = page[p].gathered]]
    /\ outbox' = [outbox EXCEPT ![p] = <<>>]
    /\ callStatus' = [callStatus EXCEPT ![p] = "idle"]
    /\ UNCHANGED <<signal, candidates, offersSent, redeliveries>>
    /\ UNCHANGED roomVars

\* useWebRTC initMedia effect: getUserMedia settles on a mounted page (the
\* page stays mounted while handleEndCall awaits the upload and the endRoom
\* write); it resolves and setLocalStream(stream) is called, or it is
\* refused and callState becomes error.
InitMedia(p) ==
    /\ pc[p] \in {"call", "ending"}
    /\ page[p].gumPending
    /\ \E ok \in Outcomes :
          IF ok
          THEN /\ page' = [page EXCEPT ![p] = initMedia(@)]
               /\ UNCHANGED callStatus
          ELSE /\ page' = [page EXCEPT ![p].gumPending = FALSE]
               /\ callStatus' = [callStatus EXCEPT ![p] = "error"]
    /\ UNCHANGED <<signal, candidates, offersSent, outbox, svc, redeliveries>>
    /\ UNCHANGED roomVars

SigNext ==
    \/ \E p \in Peers : StartCall(p)
    \/ \E p \in Peers : CreateOfferResolved(p)
    \/ \E p \in Peers : CreateAnswerResolved(p)
    \/ \E p \in Peers : SetLocalResolved(p)
    \/ \E p \in Peers : GatherCandidate(p)
    \/ \E p \in Peers : StoreApply(p)
    \/ \E p \in Peers : GetDocRead(p)
    \/ \E p \in Peers : GetDocResolved(p)
    \/ \E p \in Peers : DocSnapshot(p)
    \/ \E p \in Peers : Redeliver(p)
    \/ \E p \in Peers : AnswerApplied(p)
    \/ \E p \in Peers : OfferApplied(p)
    \/ \E p \in Peers : CandidateSnapshot(p)
    \/ \E p \in Peers : EffectCleanup(p)
    \/ \E p \in Peers : HangUp(p)
    \/ \E p \in Peers : Reload(p)

SpecSignal == SigInit /\ [][SigNext]_vars

\* The store answers a read and delivers a pending snapshot, and the
\* continuation of a resolved await runs.
SpecSignalFair ==
    /\ SpecSignal
    /\ \A p \in Peers : WF_vars(GetDocRead(p))
    /\ \A p \in Peers : WF_vars(GetDocResolved(p))
    /\ \A p \in Peers : WF_vars(DocSnapshot(p))

\* Fair scheduling of a call with a reachable store: a mounted call page
\* runs its effects, every await whose operation can settle settles, the
\* store applies the writes it was sent and delivers the snapshots it owes.
SpecSignalLive ==
    /\ SpecSignalFair
    /\ \A p \in Peers : WF_vars(StartCall(p))
    /\ \A p \in Peers : WF_vars(CreateOfferResolved(p))
    /\ \A p \in Peers : WF_vars(CreateAnswerResolved(p))
    /\ \A p \in Peers : WF_vars(SetLocalResolved(p))
    /\ \A p \in Peers : WF_vars(StoreApply(p))
    /\ \A p \in Peers : WF_vars(AnswerApplied(p))
    /\ \A p \in Peers : WF_vars(OfferApplied(p))
    /\ \A p \in Peers : WF_vars(CandidateSnapshot(p))
    /\ \A p \in Peers : WF_vars(EffectCleanup(p))


\* ------------------------------------------------------- media controls
\* CallControls onToggleMic / onToggleCamera -> useWebRTC.toggleMic /
\* toggleCamera on a mounted call page
ToggleMic(p) ==
    /\ pc[p] = "call"
    /\ page' = [page EXCEPT ![p] = toggleMic(@)]
    /\ UNCHANGED <<signal, candidates, offersSent, outbox, svc, redeliveries,
                   callStatus>>
    /\ UNCHANGED roomVars

ToggleCamera(p) ==
    /\ pc[p] = "call"
    /\ page' = [page EXCEPT ![p] = toggleCamera(@)]
    /\ UNCHANGED <<signal, candidates, offersSent, outbox, svc, redeliveries,
                   callStatus>>
    /\ UNCHANGED roomVars

\* The call pages of an active room have just mounted: getUserMedia is
\* pending, the room subscription has delivered the room.
ControlsInit ==
    /\ room = Some(joinRoomUpdate(createRoomData("u1"), "u2", 1, 1))
    /\ serverTick = 1
    /\ nextSid = 2
    /\ pc = [u \in Users |-> IF u \in Peers THEN "call" ELSE "lobby"]
    /\ role = [u \in Users |-> IF u = "u1" THEN "caller"
                               ELSE IF u = "u2" THEN "callee" ELSE "none"]
    /\ createdRoomId = [u \in Users |-> FALSE]
    /\ view = [u \in Users |-> IF u \in Peers THEN roomState(toRoom(room))
                               ELSE Null]
    /\ callStatus = [u \in Users |-> "idle"]
    /\ endReq = [u \in Users |-> NoReq]
    /\ pendingSid = [u \in Users |-> Null]
    /\ joinResult = [u \in Users |-> IF u = "u2" THEN Some(1) ELSE Null]
    /\ error = [u \in Users |-> Null]
    /\ SignalIdle

\* The media controls next to the start of the call, the exchange of offer
\* and answer and the hang-up.
ControlsNext ==
    \/ \E p \in Peers : InitMedia(p)
    \/ \E p \in Peers : ToggleMic(p)
    \/ \E p \in Peers : ToggleCamera(p)
    \/ \E p \in Peers : StartCall(p)
    \/ \E p \in Peers : CreateOfferResolved(p)
    \/ \E p \in Peers : CreateAnswerResolved(p)
    \/ \E p \in Peers : SetLocalResolved(p)
    \/ \E p \in Peers : StoreApply(p)
    \/ \E p \in Peers : GetDocRead(p)
    \/ \E p \in Peers : GetDocResolved(p)
    \/ \E p \in Peers : DocSnapshot(p)
    \/ \E p \in Peers : AnswerApplied(p)
    \/ \E p \in Peers : OfferApplied(p)
    \/ \E p \in Peers : EffectCleanup(p)
    \/ \E p \in Peers : HangUp(p)

SpecControls == ControlsInit /\ [][ControlsNext]_vars

\* -------------------------------------------------- the call page of a room
\* u1 has created the room in the lobby; the participants are in the lobby.
\* The pages of the two participants run the room operations, the start of
\* the call and the exchange of offer and answer (the exchange of candidates
\* is followed under SpecSignal).
CallInit ==
    /\ room = Some(createRoomData("u1"))
    /\ serverTick = 1
    /\ nextSid = 1
    /\ pc = [u \in Users |-> "lobby"]
    /\ role = [u \in Users |-> "none"]
    /\ createdRoomId = [u \in Users |-> u = "u1"]
    /\ view = [u \in Users |-> Null]
    /\ callStatus = [u \in Users |-> "idle"]
    /\ endReq = [u \in Users |-> NoReq]
    /\ pendingSid = [u \in Users |-> Null]
    /\ joinResult = [u \in Users |-> Null]
    /\ error = [u \in Users |-> Null]
    /\ SignalIdle

CallNext ==
    \/ \E p \in Peers : EnterCreatedRoom(p)
    \/ \E p \in Peers : HandleJoin(p)
    \/ \E p \in Peers : JoinRoom(p)
    \/ \E p \in Peers : RoomSnapshot(p)
    \/ \E p \in Peers : InitMedia(p)
    \/ \E p \in Peers : StartCall(p)
    \/ \E p \in Peers : HandleEndCall(p)
    \/ \E p \in Peers : EndRoom(p)
    \/ \E p \in Peers : LeaveAfterHangUp(p)
    \/ \E p \in Peers : LeavePage(p)
    \/ \E p \in Peers : CreateOfferResolved(p)
    \/ \E p \in Peers : CreateAnswerResolved(p)
    \/ \E p \in Peers : SetLocalResolved(p)
    \/ \E p \in Peers : StoreApply(p)
    \/ \E p \in Peers : GetDocRead(p)
    \/ \E p \in Peers : GetDocResolved(p)
    \/ \E p \in Peers : DocSnapshot(p)
    \/ \E p \in Peers : AnswerApplied(p)
    \/ \E p \in Peers : OfferApplied(p)
    \/ \E p \in Peers : EffectCleanup(p)

SpecCall == CallInit /\ [][CallNext]_vars

\* The store delivers the snapshots of the room document it owes to a
\* mounted page and applies the endRoom write it was sent; handleEndCall
\* goes on after its await.
SpecCallFair ==
    /\ SpecCall
    /\ \A p \in Peers : WF_vars(RoomSnapshot(p))
    /\ \A p \in Peers : WF_vars(EndRoom(p))
    /\ \A p \in Peers : WF_vars(LeaveAfterHangUp(p))

\* ------------------------------------------------- signaling properties
\* A service whose closeConnection has run (this.pc was set at construction).
Closed(p) == svc[p].pos # "none" /\ ~svc[p].pc

\* C11: the offer of the signal document is written at most once: once the
\* document holds an offer, no step replaces it (a second publication fails).
C11_OfferWrittenOnce ==
    [][offerPresent(signal) => signal' = Some([Get(signal') EXCEPT
                                   !.offer = Get(signal).offer])]_vars

\* The positions of setupAnswer up to the acknowledgement of its updateDoc.
Answering(p) ==
    role[p] = "callee" /\
    svc[p].pos \in {"setRemote", "createAnswer", "setLocal", "updateDoc"}

\* C12: the answer is written only while the signal document holds a non-null
\* offer, and the joiner prepares and writes its answer only after it has
\* observed an offer.
C12_AnswerOnlyAfterOffer ==
    /\ \A p \in Peers :
          Answering(p) =>
             /\ svc[p].offerArg # Null
             /\ signal # Null
             /\ Get(signal).offer # Null
    /\ signal # Null /\ Get(signal).answer # Null => Get(signal).offer # Null

\* The callee has written its answer for the offer it observed.
C12_Witness ==
    \E p \in Peers :
       /\ role[p] = "callee"
       /\ svc[p].pos = "done"
       /\ svc[p].offerArg # Null
       /\ svc[p].localDesc # Null
       /\ signal # Null
       /\ Get(signal).answer = Some(descriptionPayload(Get(svc[p].localDesc)))

\* The joiner's createAnswer is reading the signal document or waiting for
\* the offer, and its connection is open.
AwaitingOffer(p) ==
    role[p] = "callee" /\ svc[p].pc /\
    svc[p].pos \in {"getDoc", "gotDoc", "waitOffer"}

\* C13: the joiner's wait never misses the offer: whenever the offer is in
\* the store while createAnswer reads the document or waits (published
\* before the read, between the read and the subscription, or after the
\* subscription), the joiner eventually observes it and starts its answer,
\* unless its connection is closed or its page is reloaded meanwhile.
C13_OfferNotMissed ==
    \A p \in Peers :
       (AwaitingOffer(p) /\ signal # Null /\ Get(signal).offer # Null)
          ~> (svc[p].offerArg # Null \/ ~svc[p].pc)

\* The offer was published between the joiner's read and its subscription,
\* and the joiner has gone on to its answer with it.
C13_Witness ==
    \E p \in Peers :
       /\ role[p] = "callee"
       /\ svc[p].wait = "replay"
       /\ svc[p].offerArg # Null
       /\ svc[p].pos = "createAnswer"

\* C14: the description the joiner applies as its remote description is
\* exactly the {type, sdp} of an offer the initiator published, and so is the
\* offer the store holds.
C14_OfferRelayedUnchanged ==
    /\ \A p \in Peers :
          role[p] = "callee" /\ svc[p].remoteDesc # Null
             => Get(svc[p].remoteDesc) \in offersSent
    /\ signal # Null /\ Get(signal).offer # Null
          => Get(Get(signal).offer) \in offersSent

\* The joiner has applied the offer that is the initiator's local description.
C14_Witness ==
    \E p \in Peers, q \in Peers :
       /\ role[p] = "callee"
       /\ role[q] = "caller"
       /\ svc[p].remoteDesc # Null
       /\ svc[p].remoteDesc = svc[q].localDesc

\* C15: a remote candidate delivered to a peer before that peer has applied
\* the remote description is not dropped (it is kept and applied once the
\* description is set): no peer ever loses a delivered candidate.
C15_NoCandidateDropped ==
    \A p \in Peers : svc[p].dropped = {}

\* C16: the initiator applies the answer as its remote description exactly
\* once per call, whatever snapshots of the signal document are delivered:
\* while one setRemoteDescription(answer) is in flight no second one is
\* called (and none is called once the remote description is set).
C16_AnswerAppliedOnce ==
    \A p \in Peers : Len(svc[p].srd) <= 1

\* C17: a peer publishes its description before any of its own candidates:
\* no initiator candidate is in callerCandidates before the offer is in the
\* store, and no peer has a description write queued behind one of its
\* candidate writes.
C17_DescriptionBeforeCandidates ==
    /\ candidates["caller"] # {} => signal # Null /\ Get(signal).offer # Null
    /\ \A p \in Peers :
          \A i \in 1..Len(outbox[p]), j \in 1..Len(outbox[p]) :
             i < j /\ outbox[p][i].op = "addDoc" => outbox[p][j].op = "addDoc"

\* An initiator candidate is stored, after the offer.
C17_Witness ==
    /\ candidates["caller"] # {}
    /\ signal # Null
    /\ Get(signal).offer # Null

\* C18: after closeConnection has returned the service holds no open store
\* subscription (so no subscription callback fires), in every interleaving,
\* a close issued while createOffer or createAnswer is suspended included.
C18_NoSubscriptionAfterClose ==
    \A p \in Peers :
       Closed(p) => svc[p].docSub = "off" /\ ~svc[p].candSub

\* The steps in which closeConnection is called on the service of p: the
\* cleanup of the effect, or hangUp, with serviceRef.current set.
CloseCall(p) ==
    /\ page[p].serviceRef
    /\ page'[p].mounts = page[p].mounts
    /\ \/ page[p].cleanupDue /\ ~page'[p].cleanupDue
       \/ ~page'[p].serviceRef

\* C19: calling closeConnection again is a no-op: a call on a service that
\* was closed before changes nothing of the service and of its subscriptions.
C19_SecondCloseIsNoOp ==
    [][\A p \in Peers : CloseCall(p) /\ Closed(p) => svc'[p] = svc[p]]_vars

\* The steps in which the application of a description or of a candidate is
\* rejected: the caller's setRemoteDescription(answer), the callee's
\* setRemoteDescription(offer), an addIceCandidate.
Rejection(p) ==
    \/ /\ svc[p].srd # <<>>
       /\ svc'[p].pc
       /\ svc'[p].srd = Tail(svc[p].srd)
       /\ svc'[p].remoteDesc = svc[p].remoteDesc
    \/ svc[p].pos = "setRemote" /\ svc'[p].pos = "failed"
    \/ svc'[p].dropped \ svc[p].dropped # {}

\* C20: a rejection while a description or a candidate is applied is reported
\* to the caller: the step in which setRemoteDescription or addIceCandidate
\* rejects moves callState.status to "error" (initiator and joiner); and a
\* hang-up in the error state leaves the call ended and the service closed.
C20_RejectionMovesToError ==
    [][\A p \in Peers :
          /\ Rejection(p) => callStatus'[p] = "error"
          /\ callStatus[p] = "error" /\ callStatus'[p] = "ended"
                => ~svc'[p].pc /\ ~page'[p].serviceRef]_vars

\* C29: on both paths the candidate handler is registered before the step
\* that sets the local description: while setLocalDescription is running on
\* an open connection, and for as long as its ICE agent may emit candidates,
\* onicecandidate is set.
C29_HandlerBeforeLocalDescription ==
    \A p \in Peers :
       (svc[p].pc /\ (svc[p].pos = "setLocal" \/ iceGathering(svc[p])))
          => svc[p].onicecandidate

\* the joiner's agent has emitted a candidate to the handler of setupAnswer
C29_Witness ==
    \E p \in Peers :
       /\ role[p] = "callee"
       /\ svc[p].pc
       /\ iceGathering(svc[p])
       /\ svc[p].onicecandidate
       /\ page[p].gathered > 0

\* C30: every candidate is appended to exactly one role-scoped collection,
\* the one of the participant whose agent gathered it; the initiator has
\* read candidates of calleeCandidates only and the joiner of
\* callerCandidates only; no step changes or removes a stored candidate.
C30_CandidatesRoleScoped ==
    [][/\ \A r \in {"caller", "callee"} :
            /\ candidates[r] \subseteq candidates'[r]
            /\ \A c \in candidates'[r] : role'[c.agent] = r
       /\ candidates'["caller"] \cap candidates'["callee"] = {}
       /\ \A p \in Peers :
            /\ svc'[p].seen \subseteq candidates'[remoteRole(role'[p])]
            /\ \A c \in svc'[p].seen : c.agent # p]_vars

\* the joiner has read a candidate that the initiator's agent gathered
C30_Witness ==
    \E p \in Peers :
       /\ role[p] = "callee"
       /\ \E c \in svc[p].seen :
             c \in candidates["caller"] /\ role[c.agent] = "caller"

\* The call was disturbed from outside the negotiation: a participant hung
\* up or loaded the page again, a WebRTC call or a write was rejected, or a
\* rejected setRemoteDescription(answer) left the initiator without one.
Disturbed ==
    \E p \in Peers :
       \/ callStatus[p] \in {"ended", "error"}
       \/ page[p].mounts > 1
       \/ svc[p].pos = "failed"
       \/ /\ role[p] = "caller"
          /\ svc[p].pc
          /\ answerPresent(signal)
          /\ svc[p].remoteDesc = Null
          /\ svc[p].srd = <<>>
          /\ svc[p].docSub = "idle"

\* Offer and answer are both in the store, the joiner has applied the offer
\* and the initiator the answer (ontrack has handed each the remote stream).
Negotiated ==
    /\ signal # Null
    /\ Get(signal).offer # Null
    /\ Get(signal).answer # Null
    /\ \A p \in Peers : page[p].remoteStream

\* C27: under fair scheduling and a reachable store, once the initiator's
\* and the joiner's call pages are mounted for a room that was created and
\* joined and neither hangs up, eventually the offer and the answer are both
\* in the store, the joiner has applied the offer and the initiator the
\* answer, whichever participant starts first.
C27_NegotiationCompletes == <>(Negotiated \/ Disturbed)

\* ---------------------------------------------------- call page properties
RoomEnded == room # Null /\ Get(room).status = "ended"

\* A step in which useWebRTC.startCall builds a service and starts
\* createOffer or createAnswer.
NewNegotiation(p) ==
    /\ svc'[p] # svc[p]
    /\ svc'[p].pc
    /\ svc'[p].pos \in {"createOffer", "getDoc"}

\* C21: a call page starts the negotiation at most once: startCall runs only
\* on a page that has not started it, so no later change of the local
\* stream, of the role or of the room status starts it again.
C21_NegotiationStartedOnce ==
    [][\A p \in Peers :
          NewNegotiation(p) => (svc[p].pos = "none" /\ ~page[p].callStarted)]_vars

\* the initiator started while the room was waiting, its negotiation went
\* on, and its page has since seen the room become active
C21_Witness ==
    \E p \in Peers :
       /\ role[p] = "caller"
       /\ page[p].callStarted
       /\ svc[p].pos \notin {"none", "createOffer"}
       /\ view[p] # Null
       /\ Get(view[p]).status = "active"

\* C22: the joiner's page starts the negotiation only when its local media
\* is ready and it has observed the room as active; the initiator's page can
\* start as soon as its local media is ready, whatever the room status.
C22_StartCondition ==
    /\ [][\A p \in Peers :
             NewNegotiation(p) =>
                /\ page[p].localStream
                /\ role[p] \in {"caller", "callee"}
                /\ role[p] = "callee" =>
                      (view[p] # Null /\ Get(view[p]).status = "active")]_vars
    /\ [](\A p \in Peers :
            (/\ pc[p] = "call"
             /\ role[p] = "caller"
             /\ page[p].localStream
             /\ ~page[p].callStarted) => ENABLED StartCall(p))

\* the initiator has started while the room is still waiting and its page
\* has not seen the room at all
C22_Witness ==
    \E p \in Peers :
       /\ role[p] = "caller"
       /\ page[p].callStarted
       /\ svc[p].pc
       /\ view[p] = Null
       /\ Get(room).status = "waiting"

\* C23: after a participant hangs up from the call page the room eventually
\* reaches ended in the store, whatever its status at hang-up.
C23_HangUpEndsRoom ==
    \A p \in Peers : (pc[p] \in {"ending", "leaving"}) ~> RoomEnded

C25_LocalHangUpFirst ==
    [][\A p \in Peers :
          (pc[p] = "call" /\ pc'[p] \in {"ending", "leaving"}) =>
             /\ callStatus'[p] = "ended"
             /\ ~svc'[p].pc
             /\ ~page'[p].localStream
             /\ ~page'[p].serviceRef
             /\ room' = room]_vars

\* the write is issued and not yet applied; the service that was
\* negotiating is closed and the media stopped
C25_Witness ==
    \E p \in Peers :
       /\ pc[p] = "ending"
       /\ callStatus[p] = "ended"
       /\ svc[p].pos \notin {"none", "failed"}
       /\ ~svc[p].pc
       /\ ~page[p].localStream
       /\ page[p].callStarted
       /\ Get(room).status = "active"

\* ------------------------------------------------ further call properties
\* C33: once the answer field of the signal document is non-null it stays
\* non-null: no later signaling write resets it.
C33_AnswerStaysSet ==
    [][answerPresent(signal) => answerPresent(signal')]_vars

\* C34: a service that has been closed issues no further write: a
\* createOffer or createAnswer that was suspended at an await when
\* closeConnection ran does not go on to publish its offer or answer (and no
\* candidate is appended for it).
C34_NoWriteAfterClose ==
    [][\A p \in Peers :
          (Closed(p) /\ page'[p].mounts = page[p].mounts) =>
             \/ outbox'[p] = outbox[p]
             \/ outbox[p] # <<>> /\ outbox'[p] = Tail(outbox[p])]_vars

\* the connection was closed while createOffer or setupAnswer was suspended
\* at setLocalDescription; no description has been handed to the store
C34_Witness ==
    \E p \in Peers :
       /\ Closed(p)
       /\ svc[p].pos = "setLocal"
       /\ outbox[p] = <<>>
       /\ (role[p] = "caller" => signal = Null)
       /\ (role[p] = "callee" => ~answerPresent(signal))

\* C32: the joiner never applies an initiator candidate to its connection
\* before it has applied the offer as its remote description: its listener
\* of the initiator's candidates is opened only when setupAnswer has applied
\* the offer and its answer is in the store.
C32_CandidatesAfterOffer ==
    /\ [](\A p \in Peers :
            role[p] = "callee" =>
               /\ svc[p].applied # {} =>
                     /\ svc[p].remoteDesc # Null
                     /\ Get(svc[p].remoteDesc).type = "offer"
               /\ (svc[p].candSub \/ svc[p].seen # {}) => svc[p].pos = "done")
    /\ [][\A p \in Peers :
             (role[p] = "callee" /\ ~svc[p].candSub /\ svc'[p].candSub) =>
                /\ svc[p].pos = "updateDoc"
                /\ svc[p].offerArg # Null
                /\ answerPresent(signal')]_vars

\* the joiner has applied a candidate of the initiator on top of the offer
C32_Witness ==
    \E p \in Peers :
       /\ role[p] = "callee"
       /\ svc[p].applied # {}
       /\ svc[p].remoteDesc # Null
       /\ svc[p].pos = "done"
       /\ answerPresent(signal)

\* C35: the call state ended is terminal: once hangUp has set
\* callState.status to ended, no later event on the same page changes it to
\* connected, connecting or error.
C35_EndedIsTerminal ==
    [][\A p \in Peers :
          (/\ callStatus[p] = "ended"
           /\ pc'[p] \in {"call", "ending", "leaving"}
           /\ page'[p].mounts = page[p].mounts) => callStatus'[p] = "ended"]_vars

\* C36: at most one call-duration timer is running at any time, whatever
\* number of remote-track events arrive, and none is running after hangUp
\* (so the displayed duration advances by one per second while connected and
\* not at all after hang-up).
C36_OneDurationTimer ==
    \A p \in Peers :
       /\ page[p].timers <= 1
       /\ callStatus[p] = "ended" => page[p].timers = 0

\* The flags that the media controls work on.
ControlFlags(pg) ==
    <<pg.isMicEnabled, pg.isCameraEnabled, pg.audioEnabled, pg.videoEnabled>>

\* C31: toggleMic and toggleCamera change only the enabled flag of the local
\* audio / video track and the matching control flag: a step that changes a
\* flag of a page with a local stream leaves the room, the signal document,
\* the candidates, the writes in flight, every service and every call state
\* as they were and starts no negotiation, and the control flag takes the
\* track's new flag; a page without a local stream has no flag changed
\* (short of hangUp, which resets the controls).
C31_TogglesOnlyFlipFlags ==
    /\ [][\A p \in Peers :
             (/\ page[p].localStream
              /\ page'[p].localStream
              /\ ControlFlags(page'[p]) # ControlFlags(page[p])) =>
                /\ UNCHANGED <<signal, candidates, offersSent, outbox, svc,
                               redeliveries, callStatus>>
                /\ UNCHANGED roomVars
                /\ \A q \in Users \ {p} : page'[q] = page[q]
                /\ \/ page'[p] = [page[p] EXCEPT
                                     !.audioEnabled = ~@,
                                     !.isMicEnabled = ~page[p].audioEnabled]
                   \/ page'[p] = [page[p] EXCEPT
                                     !.videoEnabled = ~@,
                                     !.isCameraEnabled = ~page[p].videoEnabled]]_vars
    /\ [][\A p \in Peers :
             (/\ ~page[p].localStream
              /\ ~page'[p].localStream
              /\ callStatus'[p] = callStatus[p]) =>
                ControlFlags(page'[p]) = ControlFlags(page[p])]_vars

\* a participant in a connected call has muted the microphone and left the
\* camera on
C31_Witness ==
    \E p \in Peers :
       /\ page[p].localStream
       /\ callStatus[p] = "connected"
       /\ ~page[p].audioEnabled
       /\ ~page[p].isMicEnabled
       /\ page[p].videoEnabled
       /\ page[p].isCameraEnabled

====
